---- MODULE Spec2Model ----
(***************************************************************************)
(* Solana Token Manager: the wallet session (WalletConnect, Home) and the  *)
(* three write orchestrators (CreateToken, MintToken, SendToken).          *)
(*                                                                         *)
(* Every async handler is cut at its awaits: one action issues the         *)
(* collaborator call, one action per call models its return (resolve or    *)
(* reject) together with the synchronous code that follows it up to the    *)
(* next await.  A handler closure keeps the props and state of the render  *)
(* it was created in; a state setter of an unmounted component is a no-op. *)
(* Home renders the tabs only while walletAddress is set, and Tabs mounts  *)
(* only the content of the selected tab: a disconnect or a tab change      *)
(* unmounts the component, whose suspended handlers run on all the same.   *)
(*                                                                         *)
(* A submit is the click handler itself.  The buttons are disabled while   *)
(* isLoading (modelled as the guard of the submit actions) and also while  *)
(* a required field is empty; the second condition is left to the guard at *)
(* the top of each handler, so that this guard is exercised.               *)
(***************************************************************************)
EXTENDS Integers, Sequences, FiniteSets, TLC

\* ---------------------------------------------------------------- bounds
MaxInFlight == 2

\* ------------------------------------------------------ program constants
RecentLimit == 5

NULL == "null"

\* the addresses the user types or picks
Mints == {"M1"}
Recipients == {"R1"}
\* what a type="number" input can be asked to hold
AmountKeys == {"", "1", "-1", "abc"}
ErrTexts == {"E_wallet", "E_ledger", "E_storage"}
Ops == {"create", "mint", "send"}
TabNames == {"create", "mint", "send", "history"}
NewMint == "NewMint"

\* the user-facing messages, as the source spells them
MsgFillAll == <<"Please fill in all fields">>
MsgCreateOk == <<"Token created successfully!">>
MsgCreateFail == <<"Failed to create token. Please try again.">>
MsgMintFail == <<"Failed to mint tokens. Make sure you are the mint authority.">>
MsgSendFail == <<"Failed to send tokens. Please check the recipient address and your balance.">>
MsgLoadTokensFail == <<"Failed to load your tokens">>
MsgInstall == <<"Please install Phantom wallet">>
MsgConnected == <<"Wallet connected successfully">>
MsgConnectFail == <<"Failed to connect wallet">>
MsgDisconnected == <<"Wallet disconnected">>
MsgDisconnectFail == <<"Failed to disconnect wallet">>

MsgMintOk(amount) == <<"Successfully minted ", amount, " tokens!">>

MsgSendOk(amount) == <<"Successfully sent ", amount, " tokens!">>

FailMsg(op) ==
  CASE op = "create" -> MsgCreateFail
    [] op = "mint" -> MsgMintFail
    [] op = "send" -> MsgSendFail

VARIABLES
  walletAddress,      \* Home.walletAddress: a wallet key or NULL
  activeTab,          \* the selected tab of Home's Tabs
  wc,                 \* WalletConnect: [isLoading, isPhantomInstalled, pc, timer,
                      \*   before (the address when connectWallet was entered)]
  gw,                 \* window.solana: [present, publicKey, accounts (the keys
                      \*   the wallet holds)]
  create,             \* CreateToken state
  mint,               \* MintToken state
  send,               \* SendToken state
  storage,            \* localStorage["recentTokens"]
  inv,                \* the handler invocations suspended at an await, oldest
                      \*   first
  ended,              \* what the last step ended and what it passed to
                      \*   showNotification
  part                \* the state of the part of the program that is
                      \*   specified on its own (the amount scaling, the token
                      \*   decimals, the notification, the balance, the
                      \*   history), NoPart in the other specifications

\* the variables of the session and of the three orchestrators
core == <<walletAddress, activeTab, wc, gw, create, mint, send, storage, inv,
          ended>>

vars == <<core, part>>

NoPart == [of |-> "none"]

\* ------------------------------------------------------------ helpers
\* the argument of a showNotification call
Note(type, message) == [type |-> type, message |-> message]

NoNote == Note("none", <<"">>)

\* JSON.stringify / JSON.parse of the recency list
Stringify(list) == [kind |-> "json", list |-> list]

\* getItem of a key that was never set, and of a value that is not JSON
NoItem == [kind |-> "absent", list |-> <<>>]

Garbage == [kind |-> "garbage", list |-> <<>>]

ParseOk(item) == item.kind = "json"

Take(s, n) == SubSeq(s, 1, IF Len(s) < n THEN Len(s) ELSE n)

Includes(s, x) == \E k \in 1..Len(s) : s[k] = x

\* the value an <input type="number"> reports for what was typed into it
NumberInputValue(typed) == IF typed = "abc" THEN "" ELSE typed

CreateInit == [tokenName |-> "", tokenSymbol |-> "", decimals |-> "9",
               isLoading |-> FALSE, createdTokenMint |-> NULL]

MintInit == [tokenMintAddress |-> "", amount |-> "", isLoading |-> FALSE,
             recentTokens |-> <<>>]

SendInit == [recipientAddress |-> "", selectedToken |-> "", amount |-> "",
             isLoading |-> FALSE, tokenBalances |-> {}]

\* MintToken's mount effect: load the recency list
LoadRecent(item) == IF ParseOk(item) THEN item.list ELSE <<>>

MintMounted(item) == [MintInit EXCEPT !.recentTokens = LoadRecent(item)]

NoEnd == [kind |-> "none", outcome |-> "", calls |-> {}, notifs |-> 0,
          note |-> NoNote, writes |-> 0, mounted |-> FALSE, errText |-> "",
          before |-> NULL, available |-> FALSE, requests |-> 0,
          returned |-> NULL, addr |-> "", amount |-> ""]

\* a step that only shows a notification
Shown(type, message) ==
  [NoEnd EXCEPT !.kind = "effect", !.note = Note(type, message), !.notifs = 1]

Slots == 1..Len(inv)

Mounted(op) == walletAddress # NULL /\ activeTab = op

\* every suspended invocation of a component that is being unmounted goes stale
Unmount(ops) == [s \in Slots |->
                   IF inv[s].op \in ops THEN [inv[s] EXCEPT !.mounted = FALSE]
                   ELSE inv[s]]

Remove(q, s) == [k \in 1..(Len(q) - 1) |-> IF k < s THEN q[k] ELSE q[k + 1]]

\* ------------------------------------------------------------ session
\* checkPhantomWallet, run at mount and once more 500 ms later
CheckPhantom(w, g, addr) ==
  IF g.present
  THEN [wc |-> [w EXCEPT !.isPhantomInstalled = TRUE],
        addr |-> IF g.publicKey # NULL THEN g.publicKey ELSE addr]
  ELSE [wc |-> w, addr |-> addr]

Gateways(accounts) ==
  {[present |-> p, publicKey |-> k, accounts |-> accounts] :
     p \in BOOLEAN, k \in accounts \cup {NULL}}

WcInit == [isLoading |-> FALSE, isPhantomInstalled |-> FALSE, pc |-> "idle",
           timer |-> TRUE, before |-> NULL]

\* the page has loaded and WalletConnect's mount effect has run once (and,
\* unless `early', the 500 ms re-check has run too)
InitWith(gateways, early, items) ==
  /\ gw \in gateways
  /\ LET r == CheckPhantom(WcInit, gw, NULL)
     IN /\ wc = [r.wc EXCEPT !.timer = early]
        /\ walletAddress = r.addr
  /\ activeTab = "create"
  /\ create = CreateInit
  /\ mint = MintInit
  /\ send = SendInit
  /\ storage \in items
  /\ inv = <<>>
  /\ ended = NoEnd

\* a connected session whose page loaded a while ago, the Create tab showing
Connected ==
  InitWith({[present |-> TRUE, publicKey |-> "W1", accounts |-> {"W1"}]},
           FALSE, {NoItem})

\* the wallet extension injects window.solana after the page has loaded
PhantomInjected ==
  /\ ~gw.present
  /\ gw' = [gw EXCEPT !.present = TRUE]
  /\ ended' = NoEnd
  /\ UNCHANGED <<walletAddress, activeTab, wc, create, mint, send, storage, inv>>

CheckPhantomTimer ==
  /\ wc.timer
  /\ LET r == CheckPhantom([wc EXCEPT !.timer = FALSE], gw, walletAddress)
     IN /\ wc' = r.wc
        /\ walletAddress' = r.addr
  /\ ended' = NoEnd
  /\ UNCHANGED <<activeTab, gw, create, mint, send, storage, inv>>

\* connectWallet up to its await
ConnectClick ==
  /\ walletAddress = NULL
  /\ ~wc.isLoading
  /\ wc.pc = "idle"
  /\ IF ~wc.isPhantomInstalled
     THEN /\ ended' = [NoEnd EXCEPT !.kind = "connect", !.outcome = "unavailable",
                         !.available = gw.present, !.before = walletAddress,
                         !.note = Note("error", MsgInstall), !.notifs = 1]
          /\ UNCHANGED wc
     ELSE IF gw.present
     THEN /\ wc' = [wc EXCEPT !.isLoading = TRUE, !.pc = "wait",
                                !.before = walletAddress]
          /\ ended' = NoEnd
     ELSE /\ ended' = [NoEnd EXCEPT !.kind = "connect", !.outcome = "nosolana",
                         !.available = FALSE, !.before = walletAddress]
          /\ UNCHANGED wc
  /\ UNCHANGED <<walletAddress, activeTab, gw, create, mint, send, storage, inv>>

\* a continuation that announces success without storing the address
ConnectResolved_NotStored(key) ==
  [addr |-> walletAddress, note |-> Note("success", MsgConnected)]

\* the continuation of a resolved solana.connect()
ConnectResolved(key) ==
  [addr |-> key, note |-> Note("success", MsgConnected)]

\* the finally block of connectWallet
ConnectFinally(w) == [w EXCEPT !.isLoading = FALSE, !.pc = "idle", !.before = NULL]

\* solana.connect() returns
ConnectReturn ==
  /\ wc.pc = "wait"
  /\ \E ok \in BOOLEAN, key \in gw.accounts :
       /\ ok => (gw.publicKey = NULL \/ gw.publicKey = key)
       /\ gw.publicKey # NULL => ok
       /\ IF ok
          THEN /\ gw' = [gw EXCEPT !.publicKey = key]
               /\ walletAddress' = ConnectResolved(key).addr
               /\ ended' = [NoEnd EXCEPT !.kind = "connect", !.outcome = "ok",
                              !.available = TRUE, !.before = wc.before,
                              !.requests = 1, !.returned = key, !.notifs = 1,
                              !.note = ConnectResolved(key).note]
          ELSE /\ ended' = [NoEnd EXCEPT !.kind = "connect", !.outcome = "rejected",
                              !.available = TRUE, !.before = wc.before,
                              !.requests = 1, !.notifs = 1,
                              !.note = Note("error", MsgConnectFail),
                              !.errText = "E_wallet"]
               /\ UNCHANGED <<gw, walletAddress>>
  /\ wc' = ConnectFinally(wc)
  /\ UNCHANGED <<activeTab, create, mint, send, storage, inv>>

\* disconnectWallet; window.solana.disconnect() is not awaited, so it either
\* returns, throws on the spot, or returns a promise that rejects later
DisconnectOutcomes == {"ok", "throws", "rejects"}

DisconnectCleared(outcome) == outcome # "throws"

Disconnect ==
  /\ walletAddress # NULL
  /\ \E outcome \in DisconnectOutcomes :
       /\ ~gw.present => outcome = "ok"
       /\ gw' = IF outcome = "ok" THEN [gw EXCEPT !.publicKey = NULL] ELSE gw
       /\ IF DisconnectCleared(outcome)
          THEN /\ walletAddress' = NULL
               \* Home stops rendering the tabs: every component unmounts
               /\ activeTab' = "create"
               /\ create' = CreateInit
               /\ mint' = MintInit
               /\ send' = SendInit
               /\ inv' = Unmount(Ops)
          ELSE UNCHANGED <<walletAddress, activeTab, create, mint, send, inv>>
       /\ ended' = [NoEnd EXCEPT
                      !.kind = "disconnect", !.outcome = outcome,
                      !.before = walletAddress, !.notifs = 1,
                      !.note = IF DisconnectCleared(outcome)
                               THEN Note("success", MsgDisconnected)
                               ELSE Note("error", MsgDisconnectFail),
                      !.errText = IF outcome = "ok" THEN "" ELSE "E_wallet"]
  /\ UNCHANGED <<wc, storage>>

\* ------------------------------------------------------------ tabs, forms
\* Home's Tabs: only the selected tab's content is mounted
SelectTab(t) ==
  /\ walletAddress # NULL
  /\ t # activeTab
  /\ activeTab' = t
  /\ create' = CreateInit
  /\ mint' = IF t = "mint" THEN MintMounted(storage) ELSE MintInit
  /\ send' = SendInit
  /\ inv' = Unmount({activeTab})
  /\ ended' = NoEnd
  /\ UNCHANGED <<walletAddress, wc, gw, storage>>

SetCreateField(f, v) ==
  /\ Mounted("create")
  /\ ~create.isLoading
  /\ create' = [create EXCEPT ![f] = v]
  /\ ended' = NoEnd
  /\ UNCHANGED <<walletAddress, activeTab, wc, gw, mint, send, storage, inv>>

\* the address input is disabled while loading, the recent-token buttons are not
SetTokenMintAddress(v) ==
  /\ Mounted("mint")
  /\ ~mint.isLoading \/ Includes(mint.recentTokens, v)
  /\ mint' = [mint EXCEPT !.tokenMintAddress = v]
  /\ ended' = NoEnd
  /\ UNCHANGED <<walletAddress, activeTab, wc, gw, create, send, storage, inv>>

SetMintAmount(typed) ==
  /\ Mounted("mint")
  /\ ~mint.isLoading
  /\ mint' = [mint EXCEPT !.amount = NumberInputValue(typed)]
  /\ ended' = NoEnd
  /\ UNCHANGED <<walletAddress, activeTab, wc, gw, create, send, storage, inv>>

\* fetchTokenAccounts: the accounts with a positive balance, or a failed read
FetchTokenAccounts(ok, held) ==
  /\ Mounted("send")
  /\ IF ok
     THEN /\ send' = [send EXCEPT !.tokenBalances = held]
          /\ ended' = NoEnd
     ELSE /\ ended' = Shown("error", MsgLoadTokensFail)
          /\ UNCHANGED send
  /\ UNCHANGED <<walletAddress, activeTab, wc, gw, create, mint, storage, inv>>

\* the Select offers the fetched tokens and is not disabled while loading
SelectToken(v) ==
  /\ Mounted("send")
  /\ v \in send.tokenBalances
  /\ send' = [send EXCEPT !.selectedToken = v]
  /\ ended' = NoEnd
  /\ UNCHANGED <<walletAddress, activeTab, wc, gw, create, mint, storage, inv>>

SetRecipientAddress(v) ==
  /\ Mounted("send")
  /\ ~send.isLoading
  /\ send' = [send EXCEPT !.recipientAddress = v]
  /\ ended' = NoEnd
  /\ UNCHANGED <<walletAddress, activeTab, wc, gw, create, mint, storage, inv>>

SetSendAmount(typed) ==
  /\ Mounted("send")
  /\ ~send.isLoading
  /\ send' = [send EXCEPT !.amount = NumberInputValue(typed)]
  /\ ended' = NoEnd
  /\ UNCHANGED <<walletAddress, activeTab, wc, gw, create, mint, storage, inv>>

\* ------------------------------------------------------------ invocations
\* a handler starts: it keeps the state of the render it was created in
Begin(op, pc, fields, addr, amount, recent) ==
  [op |-> op, pc |-> pc, mounted |-> TRUE, fields |-> fields, addr |-> addr,
   amount |-> amount, recent |-> recent,
   calls |-> IF pc = "validate" THEN {} ELSE {pc}, notifs |-> 0, writes |-> 0]

CreateFields(c) == <<c.tokenName, c.tokenSymbol, c.decimals>>

MintFields(m) == <<m.tokenMintAddress, m.amount>>

SendFields(d) == <<d.selectedToken, d.recipientAddress, d.amount>>

\* a handler that sends the transaction as soon as it has its blockhash
StepAfter_SendsUnsigned(op, pc) ==
  CASE pc = "resolve" -> (IF op = "send" THEN "resolve2" ELSE "blockhash")
    [] pc = "resolve2" -> "blockhash"
    [] pc = "blockhash" -> "send"
    [] pc = "sign" -> "send"
    [] pc = "send" -> "confirm"

\* the await that follows the await pc in mintToken and in sendToken: the
\* token accounts (the sender's, then the recipient's), getLatestBlockhash,
\* signTransaction, sendRawTransaction, confirmTransaction
StepAfter(op, pc) ==
  CASE pc = "resolve" -> (IF op = "send" THEN "resolve2" ELSE "blockhash")
    [] pc = "resolve2" -> "blockhash"
    [] pc = "blockhash" -> "sign"
    [] pc = "sign" -> "send"
    [] pc = "send" -> "confirm"

\* the invocation goes on to its next await
Advance(rec, pc) == [rec EXCEPT !.pc = pc, !.calls = @ \cup {pc}]

EndOf(rec, outcome, errText, note) ==
  [NoEnd EXCEPT !.kind = rec.op, !.outcome = outcome, !.calls = rec.calls,
                !.notifs = rec.notifs + 1, !.note = note,
                !.writes = rec.writes, !.mounted = rec.mounted,
                !.errText = errText, !.addr = rec.addr, !.amount = rec.amount,
                !.before = walletAddress]

\* a finally block that is not there
Unload_Skipped(state, rec) == state

\* setIsLoading(false) of the finally block
Unload(state, rec) ==
  IF rec.mounted THEN [state EXCEPT !.isLoading = FALSE] ELSE state

\* the guard at the top of createToken, mintToken and sendToken
CreateFieldsMissing(c) == c.tokenName = "" \/ c.tokenSymbol = "" \/ c.decimals = ""

\* a guard that forgets the amount
MintFieldsMissing_AddressOnly(m) == m.tokenMintAddress = ""

MintFieldsMissing(m) == m.tokenMintAddress = "" \/ m.amount = ""

SendFieldsMissing(d) ==
  d.selectedToken = "" \/ d.recipientAddress = "" \/ d.amount = ""

\* a catch block that shows the error it caught
CaughtNote_Raw(op, errText) == Note("error", <<errText>>)

\* the catch block: one static message, the error itself goes to the console
CaughtNote(op, errText) == Note("error", FailMsg(op))

\* what follows window.solana.signTransaction
AfterSign(signed) == IF signed THEN "send" ELSE "rejected"

ConfirmResults == {"confirmed", "txFailed", "throws"}

\* ------------------------------------------------------------ CreateToken
CreateSubmit ==
  /\ Mounted("create")
  /\ ~create.isLoading
  /\ IF CreateFieldsMissing(create)
     THEN /\ ended' = EndOf(Begin("create", "validate", CreateFields(create),
                                  "", "", <<>>),
                            "InvalidInput", "", Note("error", MsgFillAll))
          /\ UNCHANGED <<create, inv>>
     ELSE /\ Len(inv) < MaxInFlight
          /\ inv' = Append(inv, Begin("create", "createMint", CreateFields(create), "",
                                      "", <<>>))
          /\ create' = [create EXCEPT !.isLoading = TRUE]
          /\ ended' = NoEnd
  /\ UNCHANGED <<walletAddress, activeTab, wc, gw, mint, send, storage>>

CreateMintReturn(s) ==
  /\ inv[s].op = "create"
  /\ inv[s].pc = "createMint"
  /\ \E ok \in BOOLEAN :
       IF ok
       THEN /\ create' = IF inv[s].mounted
                         THEN [create EXCEPT !.createdTokenMint = NewMint,
                                             !.isLoading = FALSE]
                         ELSE create
            /\ ended' = EndOf(inv[s], "Succeeded", "",
                              Note("success", MsgCreateOk))
       ELSE /\ create' = Unload(create, inv[s])
            /\ ended' = EndOf(inv[s], "OperationFailed", "E_ledger",
                              CaughtNote("create", "E_ledger"))
  /\ inv' = Remove(inv, s)
  /\ UNCHANGED <<walletAddress, activeTab, wc, gw, mint, send, storage>>

CopyToClipboard ==
  /\ Mounted("create")
  /\ create.createdTokenMint # NULL
  /\ ended' = Shown("success", <<"Token address copied to clipboard">>)
  /\ UNCHANGED <<walletAddress, activeTab, wc, gw, create, mint, send,
                 storage, inv>>

\* ------------------------------------------------------------ MintToken
\* the beginning of an address, as the address field holds it while the user
\* types
Partial == "M1beginning"

AddressLength(v) ==
  CASE v = "" -> 0
    [] v = Partial -> 11
    [] OTHER -> 44

\* new PublicKey(v) throws unless v is the base58 text of 32 bytes
ValidKey(v) == AddressLength(v) \in 32..44

\* a collaborator call rejected, or a throw between two awaits: catch, finally
MintFail(s, outcome, errText) ==
  /\ mint' = Unload(mint, inv[s])
  /\ inv' = Remove(inv, s)
  /\ ended' = EndOf(inv[s], outcome, errText, CaughtNote("mint", errText))
  /\ UNCHANGED storage

\* mintToken up to its first await
MintSubmit ==
  /\ Mounted("mint")
  /\ ~mint.isLoading
  /\ IF MintFieldsMissing(mint)
     THEN /\ ended' = EndOf(Begin("mint", "validate", MintFields(mint),
                                  mint.tokenMintAddress, mint.amount,
                                  mint.recentTokens),
                            "InvalidInput", "", Note("error", MsgFillAll))
          /\ UNCHANGED <<mint, inv>>
     ELSE IF ~ValidKey(mint.tokenMintAddress)
     THEN \* new PublicKey throws: catch and finally, before any await
          /\ ended' = EndOf(Begin("mint", "validate", MintFields(mint),
                                  mint.tokenMintAddress, mint.amount,
                                  mint.recentTokens),
                            "OperationFailed", "E_ledger",
                            CaughtNote("mint", "E_ledger"))
          /\ UNCHANGED <<mint, inv>>
     ELSE /\ Len(inv) < MaxInFlight
          /\ inv' = Append(inv, Begin("mint", "resolve", MintFields(mint),
                                      mint.tokenMintAddress, mint.amount,
                                      mint.recentTokens))
          /\ mint' = [mint EXCEPT !.isLoading = TRUE]
          /\ ended' = NoEnd
  /\ UNCHANGED <<walletAddress, activeTab, wc, gw, create, send, storage>>

\* getOrCreateAssociatedTokenAccount returns; the instruction is built (the
\* encoding of a negative amount may throw) and the blockhash is asked for
MintResolveReturn(s) ==
  /\ inv[s].op = "mint"
  /\ inv[s].pc = "resolve"
  /\ \E ok \in BOOLEAN, encodes \in BOOLEAN :
       /\ inv[s].amount # "-1" => encodes
       /\ ~ok => encodes
       /\ IF ~ok THEN MintFail(s, "OperationFailed", "E_ledger")
          ELSE IF ~encodes THEN MintFail(s, "OperationFailed", "E_ledger")
          ELSE IF ~gw.present THEN MintFail(s, "OperationFailed", "E_wallet")
          ELSE /\ inv' = [inv EXCEPT ![s] = Advance(@, StepAfter("mint", "resolve"))]
               /\ ended' = NoEnd
               /\ UNCHANGED <<mint, storage>>
  /\ UNCHANGED <<walletAddress, activeTab, wc, gw, create, send>>

\* getLatestBlockhash returns; the signature is requested
MintBlockhashReturn(s) ==
  /\ inv[s].op = "mint"
  /\ inv[s].pc = "blockhash"
  /\ \E ok \in BOOLEAN :
       IF ok
       THEN /\ inv' = [inv EXCEPT ![s] = Advance(@, StepAfter("mint", "blockhash"))]
            /\ ended' = NoEnd
            /\ UNCHANGED <<mint, storage>>
       ELSE MintFail(s, "OperationFailed", "E_ledger")
  /\ UNCHANGED <<walletAddress, activeTab, wc, gw, create, send>>

\* signTransaction returns; the signed transaction is sent
MintSignReturn(s) ==
  /\ inv[s].op = "mint"
  /\ inv[s].pc = "sign"
  /\ \E signed \in BOOLEAN :
       IF AfterSign(signed) = "send"
       THEN /\ inv' = [inv EXCEPT ![s] = Advance(@, StepAfter("mint", "sign"))]
            /\ ended' = NoEnd
            /\ UNCHANGED <<mint, storage>>
       ELSE MintFail(s, "SigningRejected", "E_wallet")
  /\ UNCHANGED <<walletAddress, activeTab, wc, gw, create, send>>

\* sendRawTransaction returns; the confirmation wait starts
MintSendReturn(s) ==
  /\ inv[s].op = "mint"
  /\ inv[s].pc = "send"
  /\ \E ok \in BOOLEAN :
       IF ok
       THEN /\ inv' = [inv EXCEPT ![s] = Advance(@, StepAfter("mint", "send"))]
            /\ ended' = NoEnd
            /\ UNCHANGED <<mint, storage>>
       ELSE MintFail(s, "SubmissionFailed", "E_ledger")
  /\ UNCHANGED <<walletAddress, activeTab, wc, gw, create, send>>

\* "Save token to recent tokens"
UpdatedTokens(recent, addr) == Take(<<addr>> \o recent, RecentLimit)

NeedsSave(recent, addr) == ~Includes(recent, addr)

\* confirmTransaction returns (its result is not looked at); the recency
\* list is saved (setItem may throw), success is announced and the amount
\* field is reset
MintConfirmReturn(s) ==
  /\ inv[s].op = "mint"
  /\ inv[s].pc = "confirm"
  /\ \E r \in ConfirmResults, stored \in BOOLEAN :
       LET rec == inv[s]
           save == NeedsSave(rec.recent, rec.addr)
           upd == UpdatedTokens(rec.recent, rec.addr)
           saved == IF save /\ rec.mounted
                    THEN [mint EXCEPT !.recentTokens = upd] ELSE mint
           wr == (IF save /\ rec.mounted THEN 1 ELSE 0)
                 + (IF save /\ stored THEN 1 ELSE 0)
       IN /\ (~save \/ r = "throws") => stored
          /\ IF r = "throws" THEN MintFail(s, "ConfirmationFailed", "E_ledger")
             ELSE IF save /\ ~stored
             THEN /\ mint' = Unload(saved, rec)
                  /\ inv' = Remove(inv, s)
                  /\ ended' = [EndOf(rec, "StorageFailed", "E_storage",
                                     CaughtNote("mint", "E_storage"))
                                 EXCEPT !.writes = wr, !.returned = r]
                  /\ UNCHANGED storage
             ELSE /\ storage' = IF save THEN Stringify(upd) ELSE storage
                  /\ mint' = IF rec.mounted
                             THEN [saved EXCEPT !.amount = "", !.isLoading = FALSE]
                             ELSE mint
                  /\ inv' = Remove(inv, s)
                  /\ ended' = [EndOf(rec, "Succeeded", "",
                                     Note("success", MsgMintOk(rec.amount)))
                                 EXCEPT !.writes = wr, !.returned = r]
  /\ UNCHANGED <<walletAddress, activeTab, wc, gw, create, send>>

\* ------------------------------------------------------------ SendToken
SendFail(s, outcome, errText) ==
  /\ send' = Unload(send, inv[s])
  /\ inv' = Remove(inv, s)
  /\ ended' = EndOf(inv[s], outcome, errText, CaughtNote("send", errText))

\* sendToken up to its first await
SendSubmit ==
  /\ Mounted("send")
  /\ ~send.isLoading
  /\ IF SendFieldsMissing(send)
     THEN /\ ended' = EndOf(Begin("send", "validate", SendFields(send),
                                  send.selectedToken, send.amount, <<>>),
                            "InvalidInput", "", Note("error", MsgFillAll))
          /\ UNCHANGED <<send, inv>>
     ELSE IF send.selectedToken \notin send.tokenBalances
     THEN \* "Selected token not found in your balances"
          /\ ended' = EndOf(Begin("send", "validate", SendFields(send),
                                  send.selectedToken, send.amount, <<>>),
                            "OperationFailed", "E_ledger",
                            CaughtNote("send", "E_ledger"))
          /\ UNCHANGED <<send, inv>>
     ELSE /\ Len(inv) < MaxInFlight
          /\ inv' = Append(inv, Begin("send", "resolve", SendFields(send),
                                      send.selectedToken, send.amount, <<>>))
          /\ send' = [send EXCEPT !.isLoading = TRUE]
          /\ ended' = NoEnd
  /\ UNCHANGED <<walletAddress, activeTab, wc, gw, create, mint, storage>>

\* the sender's token account is resolved; the recipient's is asked for
SendSenderReturn(s) ==
  /\ inv[s].op = "send"
  /\ inv[s].pc = "resolve"
  /\ \E ok \in BOOLEAN :
       IF ok
       THEN /\ inv' = [inv EXCEPT ![s] = Advance(@, StepAfter("send", "resolve"))]
            /\ ended' = NoEnd
            /\ UNCHANGED send
       ELSE SendFail(s, "OperationFailed", "E_ledger")
  /\ UNCHANGED <<walletAddress, activeTab, wc, gw, create, mint, storage>>

\* the recipient's token account is resolved; the instruction is built (the
\* encoding of a negative amount may throw) and the blockhash is asked for
SendRecipientReturn(s) ==
  /\ inv[s].op = "send"
  /\ inv[s].pc = "resolve2"
  /\ \E ok \in BOOLEAN, encodes \in BOOLEAN :
       /\ inv[s].amount # "-1" => encodes
       /\ ~ok => encodes
       /\ IF ~ok THEN SendFail(s, "OperationFailed", "E_ledger")
          ELSE IF ~encodes THEN SendFail(s, "OperationFailed", "E_ledger")
          ELSE IF ~gw.present THEN SendFail(s, "OperationFailed", "E_wallet")
          ELSE /\ inv' = [inv EXCEPT ![s] = Advance(@, StepAfter("send", "resolve2"))]
               /\ ended' = NoEnd
               /\ UNCHANGED send
  /\ UNCHANGED <<walletAddress, activeTab, wc, gw, create, mint, storage>>

SendBlockhashReturn(s) ==
  /\ inv[s].op = "send"
  /\ inv[s].pc = "blockhash"
  /\ \E ok \in BOOLEAN :
       IF ok
       THEN /\ inv' = [inv EXCEPT ![s] = Advance(@, StepAfter("send", "blockhash"))]
            /\ ended' = NoEnd
            /\ UNCHANGED send
       ELSE SendFail(s, "OperationFailed", "E_ledger")
  /\ UNCHANGED <<walletAddress, activeTab, wc, gw, create, mint, storage>>

SendSignReturn(s) ==
  /\ inv[s].op = "send"
  /\ inv[s].pc = "sign"
  /\ \E signed \in BOOLEAN :
       IF AfterSign(signed) = "send"
       THEN /\ inv' = [inv EXCEPT ![s] = Advance(@, StepAfter("send", "sign"))]
            /\ ended' = NoEnd
            /\ UNCHANGED send
       ELSE SendFail(s, "SigningRejected", "E_wallet")
  /\ UNCHANGED <<walletAddress, activeTab, wc, gw, create, mint, storage>>

SendSendReturn(s) ==
  /\ inv[s].op = "send"
  /\ inv[s].pc = "send"
  /\ \E ok \in BOOLEAN :
       IF ok
       THEN /\ inv' = [inv EXCEPT ![s] = Advance(@, StepAfter("send", "send"))]
            /\ ended' = NoEnd
            /\ UNCHANGED send
       ELSE SendFail(s, "SubmissionFailed", "E_ledger")
  /\ UNCHANGED <<walletAddress, activeTab, wc, gw, create, mint, storage>>

\* confirmTransaction returns (its result is not looked at); success is
\* announced and the amount and recipient fields are reset
SendConfirmReturn(s) ==
  /\ inv[s].op = "send"
  /\ inv[s].pc = "confirm"
  /\ \E r \in ConfirmResults :
       IF r = "throws" THEN SendFail(s, "ConfirmationFailed", "E_ledger")
       ELSE /\ send' = IF inv[s].mounted
                       THEN [send EXCEPT !.amount = "", !.recipientAddress = "",
                                         !.isLoading = FALSE]
                       ELSE send
            /\ inv' = Remove(inv, s)
            /\ ended' = [EndOf(inv[s], "Succeeded", "",
                               Note("success", MsgSendOk(inv[s].amount)))
                           EXCEPT !.returned = r]
  /\ UNCHANGED <<walletAddress, activeTab, wc, gw, create, mint, storage>>

\* ------------------------------------------------------------ notifications
\* the delay of the setTimeout of showNotification, in seconds
ExpiryDelay == 5

\* Home before any notification: nothing shown, no timeout pending; now is the
\* time in seconds, issued the last call of showNotification
NotifyIdle ==
  [of |-> "notify", notification |-> NoNote, timeouts |-> {}, now |-> 0,
   issued |-> [note |-> NoNote, at |-> 0]]

\* showNotification(type, message)
ShowNotification(note) ==
  part' = [part EXCEPT !.notification = note,
                       !.timeouts = @ \cup {part.now + ExpiryDelay},
                       !.issued = [note |-> note, at |-> part.now]]

\* a step of the session, with the showNotification call it makes
Notifying(step) ==
  /\ step
  /\ IF ended'.notifs > 0 THEN ShowNotification(ended'.note)
     ELSE UNCHANGED part

\* the callback of the setTimeout runs: it clears whatever is shown
TimeoutFires(due) ==
  /\ due \in part.timeouts
  /\ due <= part.now
  /\ part' = [part EXCEPT !.timeouts = @ \ {due}, !.notification = NoNote]
  /\ UNCHANGED core

\* a second passes; the callbacks run when they are due
Tick(limit) ==
  /\ part.now < limit
  /\ \A due \in part.timeouts : due > part.now
  /\ part' = [part EXCEPT !.now = @ + 1]
  /\ UNCHANGED core

\* ------------------------------------------------------------ SOL balance
\* useState<number>(0)
InitialBalance == 0

\* what connection.getBalance reads for each address, in SOL
BalanceOnLedger(a) == IF a = "W1" THEN 1 ELSE 2

\* getBalance up to its await, with the walletAddress of its render
GetBalance(addr) ==
  part' = [part EXCEPT !.getBalance = IF addr # NULL THEN @ \cup {addr} ELSE @]

\* Home has mounted: the effect on [walletAddress, connection] has run
BalanceMounted ==
  part = [of |-> "balance", solBalance |-> InitialBalance,
          getBalance |-> IF walletAddress # NULL THEN {walletAddress} ELSE {}]

\* a step of the session; when it changes walletAddress the effect is cleaned
\* up (clearInterval) and runs again for the new address
Refreshing(step) ==
  /\ step
  /\ IF walletAddress' # walletAddress THEN GetBalance(walletAddress')
     ELSE UNCHANGED part

\* the interval of the current effect fires (every 15 seconds), or Home renders
\* again and the effect, which depends on the Connection made at each render,
\* runs again
IntervalFires ==
  /\ walletAddress # NULL
  /\ GetBalance(walletAddress)
  /\ part' # part
  /\ ended' = NoEnd
  /\ UNCHANGED <<walletAddress, activeTab, wc, gw, create, mint, send, storage,
                 inv>>

\* connection.getBalance returns; a failed read is logged
GetBalanceReturn(a, ok) ==
  /\ a \in part.getBalance
  /\ part' = [part EXCEPT !.getBalance = @ \ {a},
                          !.solBalance = IF ok THEN BalanceOnLedger(a) ELSE @]
  /\ ended' = NoEnd
  /\ UNCHANGED <<walletAddress, activeTab, wc, gw, create, mint, send, storage,
                 inv>>

\* ------------------------------------------------------------ TransactionHistory
\* the limit given to getSignaturesForAddress
Limit == 10

TokenProgram == "TokenkegQfeZyiNwAJbNbGKPFXCWuBvf9Ss623VQ5DA"

SystemProgram == "11111111111111111111111111111111"

OtherProgram == "ComputeBudget111111111111111111111111111111"

\* what getParsedTransaction can return: null, or a transaction with or
\* without its status metadata and with the programs of its instructions
Parsed(found, meta, programs) ==
  [found |-> found, meta |-> meta, programs |-> programs]

ParsedKinds ==
  <<Parsed(FALSE, FALSE, {}),
    Parsed(TRUE, TRUE, {TokenProgram}),
    Parsed(TRUE, TRUE, {SystemProgram}),
    Parsed(TRUE, TRUE, {TokenProgram, SystemProgram}),
    Parsed(TRUE, TRUE, {OtherProgram}),
    Parsed(TRUE, FALSE, {TokenProgram})>>

\* the k-th transaction of the wallet on the ledger, the newest being 1: its
\* signature entry and what getParsedTransaction returns for it
SignatureOnLedger(k) ==
  [signature |-> k, slot |-> 100 - k,
   blockTime |-> IF k % 5 = 0 THEN 0 ELSE 1000 - k,
   err |-> (k \div 6) % 2 = 1]

ParsedOnLedger(signature) == ParsedKinds[(signature % 6) + 1]

\* getSignaturesForAddress(publicKey, { limit }): the newest first
GetSignaturesForAddress(count, limit) ==
  [k \in 1..(IF count < limit THEN count ELSE limit) |-> SignatureOnLedger(k)]

\* "Try to determine transaction type"
TypeOf(tx) ==
  IF tx.found /\ tx.meta
  THEN IF TokenProgram \in tx.programs THEN "Token"
       ELSE IF SystemProgram \in tx.programs THEN "SOL Transfer"
       ELSE "Unknown"
  ELSE "Unknown"

StatusOf(sig) == IF sig.err THEN "failed" ELSE "confirmed"

\* the record built for one signature entry
TransactionOf(sig) ==
  [signature |-> sig.signature, blockTime |-> sig.blockTime, slot |-> sig.slot,
   type |-> TypeOf(ParsedOnLedger(sig.signature)), status |-> StatusOf(sig)]

NoRead == [outcome |-> "none", sigs |-> <<>>]

\* TransactionHistory before it is mounted; reads are the invocations of
\* fetchTransactions in flight, readEnded what the last one ended with
HistoryIdle ==
  [of |-> "history", transactions |-> <<>>, historyLoading |-> FALSE,
   reads |-> <<>>, readEnded |-> NoRead]

\* the tab changes: a TransactionHistory that was mounted is unmounted, and
\* the effect of one that is mounted runs
SelectTabHistory(t) ==
  /\ SelectTab(t)
  /\ part' = [HistoryIdle EXCEPT
                !.historyLoading = (t = "history"),
                !.reads = IF t = "history"
                          THEN <<[pc |-> "signatures", sigs |-> <<>>]>>
                          ELSE <<>>]

\* Home renders again and the effect, which depends on the Connection made at
\* each render, runs again: fetchTransactions up to its first await
FetchTransactions(limit) ==
  /\ Mounted("history")
  /\ Len(part.reads) < limit
  /\ part' = [part EXCEPT
                !.historyLoading = TRUE,
                !.reads = Append(@, [pc |-> "signatures", sigs |-> <<>>]),
                !.readEnded = NoRead]
  /\ ended' = NoEnd
  /\ UNCHANGED <<walletAddress, activeTab, wc, gw, create, mint, send, storage,
                 inv>>

\* the catch and finally blocks of fetchTransactions
ReadFailed(r) ==
  part' = [part EXCEPT
             !.historyLoading = FALSE,
             !.reads = Remove(@, r),
             !.readEnded = [outcome |-> "failed",
                            sigs |-> part.reads[r].sigs]]

\* getSignaturesForAddress returns; every getParsedTransaction is called
SignaturesReturn(r, ok, count) ==
  /\ r \in 1..Len(part.reads)
  /\ part.reads[r].pc = "signatures"
  /\ IF ok
     THEN part' = [part EXCEPT
                     !.reads[r] = [pc |-> "parsed",
                                   sigs |-> GetSignaturesForAddress(count,
                                                                    Limit)],
                     !.readEnded = NoRead]
     ELSE ReadFailed(r)
  /\ ended' = NoEnd
  /\ UNCHANGED <<walletAddress, activeTab, wc, gw, create, mint, send, storage,
                 inv>>

\* Promise.all returns: every getParsedTransaction has returned, or one failed
ParsedReturn(r, ok) ==
  /\ r \in 1..Len(part.reads)
  /\ part.reads[r].pc = "parsed"
  /\ IF ok
     THEN part' = [part EXCEPT
                     !.transactions = [k \in 1..Len(part.reads[r].sigs) |->
                                         TransactionOf(part.reads[r].sigs[k])],
                     !.historyLoading = FALSE,
                     !.reads = Remove(@, r),
                     !.readEnded = [outcome |-> "ok",
                                    sigs |-> part.reads[r].sigs]]
     ELSE ReadFailed(r)
  /\ ended' = NoEnd
  /\ UNCHANGED <<walletAddress, activeTab, wc, gw, create, mint, send, storage,
                 inv>>

\* ------------------------------------------------------------ token decimals
DefaultDecimals == 9

\* fetchTokenDecimals leaves an address of fewer characters alone
FullLength == 32

\* mintInfo.decimals of the mints on the ledger
MintInfo(a) == IF a = "M1" THEN 6 ELSE 2

\* MintToken as it mounts; getMint are the addresses of the lookups that have
\* not returned, resolved the outcome of the lookup of the entered address,
\* closures the tokenDecimals each invocation in flight was started with
DecimalsIdle ==
  [of |-> "decimals", tokenDecimals |-> DefaultDecimals, getMint |-> {},
   resolved |-> "none", closures |-> <<>>]

\* the effect on [tokenMintAddress, connection], up to its await: the lookups
\* in flight after it
FetchTokenDecimals(v) ==
  IF v = "" \/ AddressLength(v) < FullLength THEN part.getMint
  ELSE part.getMint \cup {v}

\* the address field changes: the effect runs for the new address
EnterMintAddress(v) ==
  /\ v # mint.tokenMintAddress
  /\ SetTokenMintAddress(v)
  /\ part' = [part EXCEPT !.getMint = FetchTokenDecimals(v),
                          !.resolved = "none"]

\* Home renders again (a notification, a balance): it makes a new Connection,
\* which is a dependency of the effect, so the effect runs again
HomeRendered ==
  /\ Mounted("mint")
  /\ FetchTokenDecimals(mint.tokenMintAddress) # part.getMint
  /\ part' = [part EXCEPT !.getMint = FetchTokenDecimals(mint.tokenMintAddress)]
  /\ ended' = NoEnd
  /\ UNCHANGED <<walletAddress, activeTab, wc, gw, create, mint, send, storage,
                 inv>>

\* the catch block of fetchTokenDecimals: "Keep default decimals"
LookupFailed(decimals) == decimals

\* getMint returns
GetMintReturn(a, ok) ==
  /\ a \in part.getMint
  /\ part' = [part EXCEPT
                !.getMint = @ \ {a},
                !.tokenDecimals = IF ok THEN MintInfo(a) ELSE LookupFailed(@),
                !.resolved = IF a # mint.tokenMintAddress \/ @ = "ok" THEN @
                             ELSE IF ok THEN "ok" ELSE "failed"]
  /\ ended' = NoEnd
  /\ UNCHANGED <<walletAddress, activeTab, wc, gw, create, mint, send, storage,
                 inv>>

\* the handler of an invocation that starts is the one of the current render
Captured ==
  part' = [part EXCEPT
             !.closures = IF Len(inv') > Len(inv)
                          THEN Append(@, [decimals |-> part.tokenDecimals,
                                          resolved |-> part.resolved])
                          ELSE @]

\* the invocation of slot s went on or ended
Followed(s) ==
  part' = [part EXCEPT
             !.closures = IF Len(inv') < Len(inv) THEN Remove(@, s) ELSE @]

\* mintToken with the tokenDecimals of its render
MintSubmitScaled ==
  MintSubmit /\ Captured

MintReturnScaled(s) ==
  /\ \/ MintResolveReturn(s)
     \/ MintBlockhashReturn(s)
     \/ MintSignReturn(s)
     \/ MintSendReturn(s)
     \/ MintConfirmReturn(s)
  /\ Followed(s)

\* a tab change unmounts MintToken or mounts a new one
SelectTabScaled(t) ==
  /\ SelectTab(t)
  /\ part' = [DecimalsIdle EXCEPT !.closures = part.closures]

\* ------------------------------------------------------------ amount scaling
\* Math.floor(Number.parseFloat(amount) * Math.pow(10, decimals)), computed as
\* the engine computes it: in IEEE 754 binary64, every operation rounded to
\* the nearest value of 53 significant bits, ties to even.  A natural number
\* is the sequence of its bits, lowest first, without leading zeros.
MantissaBits == 53

RECURSIVE Bits(_)
Bits(n) == IF n = 0 THEN <<>> ELSE <<n % 2>> \o Bits(n \div 2)

RECURSIVE Trim(_)
Trim(b) ==
  IF b # <<>> /\ b[Len(b)] = 0 THEN Trim(SubSeq(b, 1, Len(b) - 1)) ELSE b

Zeros(n) == [k \in 1..n |-> 0]

\* b * 2^n
ShiftLeft(b, n) == IF b = <<>> THEN <<>> ELSE Zeros(n) \o b

\* floor(b / 2^n)
ShiftRight(b, n) == IF n >= Len(b) THEN <<>> ELSE SubSeq(b, n + 1, Len(b))

\* the arithmetic goes ten bits at a time
Radix == 2^10

Low(b) == SubSeq(b, 1, IF Len(b) < 10 THEN Len(b) ELSE 10)

High(b) == ShiftRight(b, 10)

RECURSIVE ToNat(_)
ToNat(b) == IF b = <<>> THEN 0 ELSE b[1] + 2 * ToNat(Tail(b))

\* low + Radix * high, for low < Radix
Cons(low, high) ==
  LET l == Bits(low) IN Trim(l \o Zeros(10 - Len(l)) \o high)

RECURSIVE AddBits(_, _, _)
AddBits(a, b, carry) ==
  IF a = <<>> /\ b = <<>> THEN Bits(carry)
  ELSE LET t == ToNat(Low(a)) + ToNat(Low(b)) + carry
       IN Cons(t % Radix, AddBits(High(a), High(b), t \div Radix))

\* a * k + carry, for k < Radix
RECURSIVE TimesSmall(_, _, _)
TimesSmall(a, k, carry) ==
  IF a = <<>> THEN Bits(carry)
  ELSE LET t == ToNat(Low(a)) * k + carry
       IN Cons(t % Radix, TimesSmall(High(a), k, t \div Radix))

RECURSIVE MulBits(_, _)
MulBits(a, b) ==
  IF b = <<>> THEN <<>>
  ELSE AddBits(TimesSmall(a, ToNat(Low(b)), 0),
               ShiftLeft(MulBits(a, High(b)), 10), 0)

\* long division of b by k < 2^20, highest bits first
RECURSIVE DivSmall(_, _)
DivSmall(b, k) ==
  IF b = <<>> THEN [q |-> <<>>, r |-> 0]
  ELSE LET up == DivSmall(High(b), k)
           r == up.r * Radix + ToNat(Low(b))
       IN [q |-> Cons(r \div k, up.q), r |-> r % k]

RECURSIVE TenTo(_)
TenTo(d) == IF d = 0 THEN 1 ELSE 10 * TenTo(d - 1)

\* a binary64 value m * 2^e; zero is the empty m
Double(m, e) == [m |-> m, e |-> e]

\* the value big * 2^e (plus something in (0, 2^e) when sticky), rounded to
\* the nearest binary64, ties to even
RoundNearestEven(big, sticky, e) ==
  IF Len(big) <= MantissaBits THEN Double(big, e)
  ELSE LET drop == Len(big) - MantissaBits
           kept == SubSeq(big, drop + 1, Len(big))
           half == big[drop] = 1
           below == sticky \/ \E k \in 1..(drop - 1) : big[k] = 1
           up == half /\ (below \/ kept[1] = 1)
       IN Double(IF up THEN AddBits(kept, <<1>>, 0) ELSE kept, e + drop)

\* the display amounts: the digits of the text and how many of them follow
\* the decimal point ("3.25" is 325 with 2 places)
Amount(digits, places) == [digits |-> digits, places |-> places]

\* Number.parseFloat of a decimal text: the binary64 nearest to its value
ParseFloat(a) ==
  LET d == DivSmall(ShiftLeft(Bits(a.digits), 90), TenTo(a.places))
  IN RoundNearestEven(d.q, d.r # 0, 0 - 90)

\* Math.pow(10, decimals): exact, 10^9 has 30 bits
Pow10(decimals) == Double(Bits(TenTo(decimals)), 0)

\* x * y in binary64
Multiply(x, y) == RoundNearestEven(MulBits(x.m, y.m), FALSE, x.e + y.e)

\* Math.floor of a binary64 that is not negative
Floor(x) == IF x.e >= 0 THEN ShiftLeft(x.m, x.e) ELSE ShiftRight(x.m, 0 - x.e)

\* mintToken: "Calculate the amount to mint based on decimals"
AmountToMint(amount, decimals) ==
  Floor(Multiply(ParseFloat(amount), Pow10(decimals)))

\* sendToken: "Calculate the amount to send based on decimals"
AmountToSend(amount, decimals) ==
  Floor(Multiply(ParseFloat(amount), Pow10(decimals)))

\* the amount and the decimals an instruction is built from, and the base
\* units it then holds
Scaling(op, amount, decimals) ==
  [of |-> "scaling", op |-> op, amount |-> amount, decimals |-> decimals,
   units |-> <<>>, done |-> FALSE]

\* the instruction of a Mint is built from the amount and the decimals
MintScale ==
  /\ part.op = "mint"
  /\ ~part.done
  /\ part' = [part EXCEPT
                !.units = AmountToMint(part.amount, part.decimals),
                !.done = TRUE]
  /\ UNCHANGED core

\* the instruction of a Send is built from the amount and the decimals of the
\* selected token
SendScale ==
  /\ part.op = "send"
  /\ ~part.done
  /\ part' = [part EXCEPT
                !.units = AmountToSend(part.amount, part.decimals),
                !.done = TRUE]
  /\ UNCHANGED core

\* the orchestrators: the extension is installed, the page loaded a while ago
Init ==
  /\ InitWith({g \in Gateways({"W1"}) : g.present}, FALSE,
              {NoItem, Garbage, Stringify(<<"M2", "M1">>)})
  /\ part = NoPart

\* Home and WalletConnect alone, from the page load on
InitSession ==
  /\ InitWith({g \in Gateways({"W1", "W2"}) : ~g.present => g.publicKey = NULL},
              TRUE, {NoItem, Garbage, Stringify(<<"M2", "M1">>)})
  /\ part = NoPart

\* ------------------------------------------------------------ specification
NextSession ==
  \/ PhantomInjected /\ UNCHANGED part
  \/ CheckPhantomTimer /\ UNCHANGED part
  \/ ConnectClick /\ UNCHANGED part
  \/ ConnectReturn /\ UNCHANGED part
  \/ Disconnect /\ UNCHANGED part
  \/ \E t \in TabNames : SelectTab(t) /\ UNCHANGED part

SpecSession == InitSession /\ [][NextSession]_vars

Next ==
  \/ ConnectClick /\ UNCHANGED part
  \/ ConnectReturn /\ UNCHANGED part
  \/ Disconnect /\ UNCHANGED part
  \/ \E t \in TabNames : SelectTab(t) /\ UNCHANGED part
  \/ \E v \in {"", "Demo"} : SetCreateField("tokenName", v) /\ UNCHANGED part
  \/ \E v \in {"", "DMO"} : SetCreateField("tokenSymbol", v) /\ UNCHANGED part
  \/ \E v \in {"", "9"} : SetCreateField("decimals", v) /\ UNCHANGED part
  \/ CreateSubmit /\ UNCHANGED part
  \/ \E s \in Slots : CreateMintReturn(s) /\ UNCHANGED part
  \/ CopyToClipboard /\ UNCHANGED part
  \/ \E v \in Mints \cup {""} : SetTokenMintAddress(v) /\ UNCHANGED part
  \/ \E typed \in AmountKeys : SetMintAmount(typed) /\ UNCHANGED part
  \/ MintSubmit /\ UNCHANGED part
  \/ \E s \in Slots : MintResolveReturn(s) /\ UNCHANGED part
  \/ \E s \in Slots : MintBlockhashReturn(s) /\ UNCHANGED part
  \/ \E s \in Slots : MintSignReturn(s) /\ UNCHANGED part
  \/ \E s \in Slots : MintSendReturn(s) /\ UNCHANGED part
  \/ \E s \in Slots : MintConfirmReturn(s) /\ UNCHANGED part
  \/ \E ok \in BOOLEAN, held \in SUBSET Mints : FetchTokenAccounts(ok, held) /\ UNCHANGED part
  \/ \E v \in Mints : SelectToken(v) /\ UNCHANGED part
  \/ \E v \in Recipients \cup {""} : SetRecipientAddress(v) /\ UNCHANGED part
  \/ \E typed \in AmountKeys : SetSendAmount(typed) /\ UNCHANGED part
  \/ SendSubmit /\ UNCHANGED part
  \/ \E s \in Slots : SendSenderReturn(s) /\ UNCHANGED part
  \/ \E s \in Slots : SendRecipientReturn(s) /\ UNCHANGED part
  \/ \E s \in Slots : SendBlockhashReturn(s) /\ UNCHANGED part
  \/ \E s \in Slots : SendSignReturn(s) /\ UNCHANGED part
  \/ \E s \in Slots : SendSendReturn(s) /\ UNCHANGED part
  \/ \E s \in Slots : SendConfirmReturn(s) /\ UNCHANGED part

Spec == Init /\ [][Next]_vars

\* Home's notification: the session's handlers call showNotification, time
\* passes, the timeouts run
MaxTime == 12

InitNotify ==
  /\ InitWith({g \in Gateways({"W1"}) : g.present}, FALSE,
              {NoItem, Garbage, Stringify(<<"M2", "M1">>)})
  /\ part = NotifyIdle

NextNotify ==
  \/ Notifying(ConnectClick)
  \/ Notifying(ConnectReturn)
  \/ Notifying(Disconnect)
  \/ \E due \in part.timeouts :
       TimeoutFires(due)
  \/ Tick(MaxTime)

SpecNotify == InitNotify /\ [][NextNotify]_vars

\* Home's balance refresh over connects and disconnects of two wallets
InitBalance ==
  /\ InitWith({g \in Gateways({"W1", "W2"}) : ~g.present => g.publicKey = NULL},
              TRUE, {NoItem})
  /\ BalanceMounted

NextBalance ==
  \/ Refreshing(PhantomInjected)
  \/ Refreshing(CheckPhantomTimer)
  \/ Refreshing(ConnectClick)
  \/ Refreshing(ConnectReturn)
  \/ Refreshing(Disconnect)
  \/ IntervalFires
  \/ \E a \in {"W1", "W2"}, ok \in BOOLEAN :
       GetBalanceReturn(a, ok)

SpecBalance == InitBalance /\ [][NextBalance]_vars

\* TransactionHistory over tab changes and renders of Home, the wallet having
\* from no transaction to more than the limit
MaxReads == 2

MaxHistory == 12

NextHistory ==
  \/ \E t \in {"create", "history"} :
       SelectTabHistory(t)
  \/ FetchTransactions(MaxReads)
  \/ \E r \in 1..Len(part.reads), ok \in BOOLEAN, count \in 0..MaxHistory :
       SignaturesReturn(r, ok, count)
  \/ \E r \in 1..Len(part.reads), ok \in BOOLEAN :
       ParsedReturn(r, ok)

InitHistory ==
  /\ Connected
  /\ part = HistoryIdle

SpecHistory == InitHistory /\ [][NextHistory]_vars

\* MintToken and its decimals, from the opening of the Mint tab on: the
\* address field, the lookups, the invocations
InitDecimals ==
  /\ InitWith({[present |-> TRUE, publicKey |-> "W1", accounts |-> {"W1"}]},
              FALSE, {NoItem, Stringify(<<"M2", "M1">>)})
  /\ part = DecimalsIdle

NextDecimals ==
  \/ SelectTabScaled("mint")
  \/ \E v \in {"", Partial, "M1", "M2"} : EnterMintAddress(v)
  \/ HomeRendered
  \/ \E a \in {"M1", "M2"}, ok \in BOOLEAN :
       GetMintReturn(a, ok)
  \/ SetMintAmount("1") /\ UNCHANGED part
  \/ MintSubmitScaled
  \/ \E s \in Slots : MintReturnScaled(s)

SpecDecimals == InitDecimals /\ [][NextDecimals]_vars

\* the amount scaling rule on its own: every display amount of Amounts with
\* every number of decimals, for Mint and for Send
MaxPlaces == 3

MaxDigits == 45

Amounts ==
  {Amount(n, k) : n \in 0..MaxDigits, k \in 0..MaxPlaces}

Decimals == 0..9

InitScaling ==
  /\ Connected
  /\ part \in {Scaling(op, a, d) :
                 op \in {"mint", "send"}, a \in Amounts, d \in Decimals}

NextScaling ==
  \/ MintScale
  \/ SendScale

SpecScaling == InitScaling /\ [][NextScaling]_vars
\* ------------------------------------------------------------ properties
NonNegativeAmounts == {"1"}

Loading(op) ==
  CASE op = "create" -> create.isLoading
    [] op = "mint" -> mint.isLoading
    [] op = "send" -> send.isLoading

\* the form of the mounted orchestrator has an empty required field
ActiveFormIncomplete ==
  \/ activeTab = "create" /\ "" \in {create.tokenName, create.tokenSymbol,
                                     create.decimals}
  \/ activeTab = "mint" /\ "" \in {mint.tokenMintAddress, mint.amount}
  \/ activeTab = "send" /\ "" \in {send.selectedToken, send.recipientAddress,
                                   send.amount}

\* C1: an invocation that has issued a collaborator call (account resolution,
\* blockhash, signature, submission) was submitted with every required field
\* filled and, for Mint and Send, a non-negative numeric amount.
C1_ValidatedBeforeBuilding ==
  \A s \in Slots :
    /\ \A k \in DOMAIN inv[s].fields : inv[s].fields[k] # ""
    /\ inv[s].op \in {"mint", "send"} => inv[s].amount \in NonNegativeAmounts

\* C2: a submit of Create, Mint or Send with an empty required field ends as
\* InvalidInput in the same step: no invocation is started, no call is issued,
\* every form, the recency list, the created mint, the storage and the session
\* are unchanged, isLoading is false, and the one effect is the error
\* notification "Please fill in all fields".
C2_InvalidInputNoSideEffects ==
  [][(/\ ActiveFormIncomplete
      /\ \/ Len(inv') > Len(inv)
         \/ ended'.kind = activeTab /\ ended'.kind \in Ops /\ ended'.calls = {})
     => /\ ended'.outcome = "InvalidInput"
        /\ ended'.calls = {}
        /\ ended'.notifs = 1
        /\ ended'.note = Note("error", MsgFillAll)
        /\ ~Loading(activeTab)'
        /\ UNCHANGED <<walletAddress, activeTab, wc, gw, create, mint, send,
                       storage, inv>>]_vars

C2_Witness ==
  /\ ended.kind = "send"
  /\ ended.outcome = "InvalidInput"
  /\ send.selectedToken # ""
  /\ send.amount = ""

\* C3: the step in which a Mint or Send invocation learns that the wallet
\* rejected the signature ends the invocation: nothing was or is submitted,
\* the recency list is unchanged in memory and in storage, the invocation
\* wrote nothing to it, and the isLoading of its component is false.
C3_SigningRejectedReturnsToIdle ==
  [][ended'.outcome = "SigningRejected"
     => /\ ended'.kind \in {"mint", "send"}
        /\ "sign" \in ended'.calls
        /\ ended'.calls \cap {"send", "confirm"} = {}
        /\ Len(inv') = Len(inv) - 1
        /\ \A s \in 1..Len(inv') : inv'[s] \in {inv[t] : t \in 1..Len(inv)}
        /\ storage' = storage
        /\ mint'.recentTokens = mint.recentTokens
        /\ ended'.writes = 0
        /\ ended'.mounted /\ ended'.kind = "mint" => ~mint'.isLoading
        /\ ended'.mounted /\ ended'.kind = "send" => ~send'.isLoading]_vars

C3_Witness ==
  /\ ended.outcome = "SigningRejected"
  /\ ended.kind = "mint"
  /\ ended.mounted
  /\ mint.recentTokens # <<>>

\* C4: at most one invocation of Create, Mint or Send is in flight.
C4_AtMostOneInFlight == Len(inv) <= 1

\* C5: an invocation moves on to its next collaborator call only while the
\* session is connected.
C5_NoStepWhileDisconnected ==
  [][(/\ Len(inv') = Len(inv)
      /\ \E s \in 1..Len(inv) : inv'[s].pc # inv[s].pc)
     => walletAddress # NULL]_vars

NoDuplicates(list) ==
  \A j, k \in 1..Len(list) : list[j] = list[k] => j = k

\* C6: every update of the recency list by a Mint leaves at most 5 entries and
\* no duplicate, puts the minted address first, keeps the others in order
\* (dropping only the oldest of 5), and leaves the persisted copy equal to the
\* list in memory.
C6_RecencyListBoundedOrderedPersisted ==
  [][(/\ activeTab = "mint" /\ activeTab' = "mint"
      /\ walletAddress # NULL /\ walletAddress' # NULL
      /\ mint'.recentTokens # mint.recentTokens)
     => LET old == mint.recentTokens
            new == mint'.recentTokens
        IN /\ Len(new) <= RecentLimit
           /\ NoDuplicates(new)
           /\ new[1] = ended'.addr
           /\ Len(new) = (IF Len(old) = RecentLimit THEN RecentLimit
                          ELSE Len(old) + 1)
           /\ \A k \in 2..Len(new) : new[k] = old[k - 1]
           /\ storage' = Stringify(new)]_vars

\* C7: after a successful Mint of an address that was already in the recency
\* list, that address is first in the list and the list has the same length.
C7_DuplicateMovesToFront ==
  [][(/\ ended'.kind = "mint"
      /\ ended'.outcome = "Succeeded"
      /\ ended'.mounted
      /\ Includes(mint.recentTokens, ended'.addr))
     => /\ mint'.recentTokens[1] = ended'.addr
        /\ Len(mint'.recentTokens) = Len(mint.recentTokens)]_vars

\* C8: an invocation of Create, Mint or Send that ended showed exactly one
\* notification; when a collaborator call failed it is the error notification
\* with the static message of the operation, with none of the error's text.
C8_OneStaticNotification ==
  ended.kind \in Ops
  => /\ ended.notifs = 1
     /\ ended.note.type \in {"success", "error"}
     /\ ended.errText # ""
        => /\ ended.note = Note("error", FailMsg(ended.kind))
           /\ \A k \in DOMAIN ended.note.message :
                ended.note.message[k] \notin ErrTexts

C8_Witness ==
  /\ ended.kind = "send"
  /\ ended.outcome = "SubmissionFailed"
  /\ ended.errText = "E_ledger"
  /\ ~ended.mounted

\* C9: after disconnectWallet the session address is absent and no error
\* notification was shown, whatever the gateway's disconnect did.
C9_DisconnectClearsUnconditionally ==
  ended.kind = "disconnect"
  => /\ walletAddress = NULL
     /\ ended.note.type # "error"

\* C10: when connectWallet has ended the connecting flag is false; with no
\* wallet available no request was sent, the address is what it was and an
\* error was shown; after a rejection the address is what it was and an error
\* was shown; after a success the address is the one the gateway returned and
\* success was shown.
C10_ConnectOutcomes ==
  ended.kind = "connect"
  => /\ ~wc.isLoading
     /\ wc.pc = "idle"
     /\ ~ended.available
        => /\ ended.requests = 0
           /\ walletAddress = ended.before
           /\ ended.note.type = "error"
     /\ ended.outcome = "rejected"
        => /\ walletAddress = ended.before
           /\ ended.note.type = "error"
     /\ ended.outcome = "ok"
        => /\ walletAddress = ended.returned
           /\ ended.returned \in gw.accounts
           /\ ended.note.type = "success"

C10_Witness ==
  /\ ended.kind = "connect"
  /\ ended.outcome = "ok"
  /\ ended.returned = "W2"
  /\ walletAddress = "W2"
\* floor(displayAmount * 10^decimals), in exact arithmetic
ExactUnits(a, decimals) ==
  DivSmall(MulBits(Bits(a.digits), Bits(TenTo(decimals))), TenTo(a.places)).q

\* C12: for Mint and Send, for every display amount and every decimals in
\* 0..9, the base-unit amount placed in the instruction is the exact
\* floor(displayAmount * 10^decimals).
C12_ScalingIsExactFloor ==
  part.done => part.units = ExactUnits(part.amount, part.decimals)
\* C11: when a Mint invocation builds its instruction, the decimals it scales
\* with are the on-chain decimals of the address it mints if the lookup of
\* that address had succeeded when it was submitted, and 9 if the lookup had
\* failed or had not returned (or the address was not complete).
C11_DecimalsOfEnteredAddress ==
  [][\A s \in Slots :
       (/\ inv[s].op = "mint"
        /\ inv[s].pc = "resolve"
        /\ Len(inv') = Len(inv)
        /\ inv'[s].pc = "blockhash")
       => part.closures[s].decimals = IF part.closures[s].resolved = "ok"
                                 THEN MintInfo(inv[s].addr)
                                 ELSE DefaultDecimals]_vars
\* C13: until 5 seconds after the last notify call the notification shown is
\* the one of that call: it is the most recently issued one, and no expiry of
\* an earlier notification has cleared it.
C13_LatestShownUntilExpiry ==
  (part.issued.note # NoNote /\ part.now < part.issued.at + ExpiryDelay)
  => part.notification = part.issued.note
\* C14: while the session is connected, solBalance is the initial value or a
\* value read for the current session address: no read issued for an earlier
\* address is shown.
C14_BalanceOfCurrentAddress ==
  walletAddress # NULL
  => part.solBalance \in {InitialBalance, BalanceOnLedger(walletAddress)}
\* C15: when a read of the History Reader has failed (the signature list or a
\* parsed transaction), the history shown is empty.
C15_FailedReadShowsNothing ==
  part.readEnded.outcome = "failed" => part.transactions = <<>>

\* the classification by the instructions alone
ClassOf(tx) ==
  IF TokenProgram \in tx.programs THEN "Token"
  ELSE IF SystemProgram \in tx.programs THEN "SOL Transfer"
  ELSE "Unknown"

\* C16: when a read has succeeded, the history is one record per signature
\* entry returned, in the same order, at most 10, classified Token if the
\* instructions include the token program, SOL Transfer if they include the
\* system program and not the token program, Unknown otherwise, and failed
\* exactly when the entry has an error.
C16_OneClassifiedRecordPerEntry ==
  part.readEnded.outcome = "ok"
  => /\ Len(part.transactions) = Len(part.readEnded.sigs)
     /\ Len(part.transactions) <= Limit
     /\ \A k \in 1..Len(part.transactions) :
          /\ part.transactions[k].signature = part.readEnded.sigs[k].signature
          /\ part.transactions[k].type =
               ClassOf(ParsedOnLedger(part.readEnded.sigs[k].signature))
          /\ (part.transactions[k].status = "failed")
               = part.readEnded.sigs[k].err
          /\ part.transactions[k].status \in {"failed", "confirmed"}
\* the awaits of a Mint and of a Send, in the order the claim gives
StepsOf(op) ==
  IF op = "send"
  THEN <<"resolve", "resolve2", "blockhash", "sign", "send", "confirm">>
  ELSE <<"resolve", "blockhash", "sign", "send", "confirm">>

\* the calls of an invocation are the steps up to the one it waits for
InOrder(rec) ==
  rec.op \in {"mint", "send"}
  => \E n \in 1..Len(StepsOf(rec.op)) :
       /\ rec.pc = StepsOf(rec.op)[n]
       /\ rec.calls = {StepsOf(rec.op)[k] : k \in 1..n}

\* C17: every Mint and Send invocation issues its calls in the order token
\* accounts, blockhash, signature, submission, confirmation, each within the
\* invocation (so it submits only after it asked for the signature and with
\* a blockhash it fetched itself); and the recency list is updated or stored
\* and success is announced only in the step in which the confirmation wait
\* of the invocation returns.
C17_StepsInOrder ==
  [][/\ \A s \in 1..Len(inv') : InOrder(inv'[s])
     /\ (\/ storage' # storage
         \/ ended'.kind \in {"mint", "send"} /\ ended'.note.type = "success"
         \/ /\ activeTab = "mint" /\ activeTab' = "mint"
            /\ walletAddress # NULL /\ walletAddress' # NULL
            /\ mint'.recentTokens # mint.recentTokens)
        => \E s \in Slots :
             /\ inv[s].op = ended'.kind
             /\ inv[s].pc = "confirm"
             /\ inv' = Remove(inv, s)
             /\ ended'.calls = {StepsOf(inv[s].op)[k] :
                                  k \in 1..Len(StepsOf(inv[s].op))}]_vars

C17_Witness ==
  /\ ended.kind = "mint"
  /\ ended.outcome = "Succeeded"
  /\ ended.writes = 2
  /\ storage = Stringify(mint.recentTokens)

\* C18: a Mint or Send invocation announces success if and only if the
\* confirmation wait reported its transaction confirmed and not failed.
C18_SuccessIffConfirmed ==
  ended.kind \in {"mint", "send"}
  => /\ ended.note.type = "success" => ended.returned = "confirmed"
     /\ ended.returned = "confirmed" => ended.note.type = "success"

\* C19: the isLoading of a mounted orchestrator is true exactly while one of
\* its invocations has passed validation and has not ended.
C19_LoadingWhileInFlight ==
  \A op \in Ops :
    Mounted(op) => (Loading(op) <=> \E s \in Slots : inv[s].op = op)
====
